---- MODULE Spec2Model ----
(***************************************************************************)
(* A model of nlp_architect/data/conll2000.py: the CONLL2000 data set      *)
(* loader.  The corpus parser (parse_entries), the vocabulary builder      *)
(* (_sentences_to_ints), the character feature builder                     *)
(* (create_char_features) and the feature assembler (gen_iterators).       *)
(*                                                                         *)
(* Strings are sequences of one-character strings, so that whitespace      *)
(* splitting, lower-casing and the per-character loop are computed.        *)
(* Python lists and tuples are sequences; a dict is a function together    *)
(* with the sequence of its keys in insertion order where the order is     *)
(* read (Python >= 3.7 dict semantics).                                    *)
(***************************************************************************)
EXTENDS Integers, Sequences, FiniteSets, TLC

VARIABLES
    pc,             \* position of the running call
    \* parse_entries
    lines,          \* the lines of the file being parsed
    idx,            \* number of lines already consumed by the for loop
    block,          \* parse_entries.block
    texts,          \* parse_entries.texts
    \* _sentences_to_ints
    v_texts,        \* argument texts
    lowercase,      \* argument lowercase
    w_dict,         \* the counting dict, as its (key, count) items in insertion order
    vocab,          \* the dict vocab
    v_ints,         \* the returned id sequences
    \* create_char_features
    c_sentences,    \* argument sentences
    c_sentence_length, \* argument sentence_length
    c_word_length,  \* argument word_length
    c_done,         \* number of sentences already processed by the outer loop
    char_dict,      \* char_dict
    char_id,        \* char_id
    new_sentences,  \* new_sentences
    char_sentences, \* the returned array
    \* gen_iterators
    train_file, test_file,      \* the two corpus files
    sentence_length, chars_len, \* self.sentence_length, self.chars_len
    use_pos, use_chars, use_w2v,\* the feature flags
    train_set, test_set,        \* load_data()'s result
    sents, X, y, X_w2v, X_pos, g_chars, \* locals of gen_iterators
    vocabs,                     \* self.vocabs
    y_vocab, y_size,            \* self.y_vocab, self.y_size
    train_iters, test_iters,    \* the iterator lists
    data_dict                   \* self._data_dict

parseVars == <<lines, idx, block, texts>>
vocabVars == <<v_texts, lowercase, w_dict, vocab, v_ints>>
charVars  == <<c_sentences, c_sentence_length, c_word_length, c_done,
               char_dict, char_id, new_sentences, char_sentences>>
genVars   == <<train_file, test_file, sentence_length, chars_len,
               use_pos, use_chars, use_w2v, train_set, test_set,
               sents, X, y, X_w2v, X_pos, g_chars, vocabs, y_vocab, y_size,
               train_iters, test_iters, data_dict>>
vars == <<pc, parseVars, vocabVars, charVars, genVars>>

(***************************************************************************)
(* Bounds of the model.                                                    *)
(***************************************************************************)
MaxLines == 6           \* lines of a file given to parse_entries alone
MaxTexts == 2           \* sentences given to _sentences_to_ints alone
MaxTextLen == 2         \* tokens of such a sentence
MaxCharSents == 2       \* sentences given to create_char_features alone
MaxCharWords == 2       \* words of such a sentence
MaxSentenceLength == 2  \* sentence_length given to create_char_features alone
MaxWordLength == 3      \* word_length given to create_char_features alone
MaxFileSents == 1       \* sentences of a corpus file given to gen_iterators
MaxSentLen == 3         \* words of a sentence of the train file; sentence_length
MaxTestLen == 2         \* words of a sentence of the test file
CharsLen == 3           \* chars_len given to gen_iterators
EmbSize == 1            \* dimension of the word embeddings

(***************************************************************************)
(* Generic helpers.                                                        *)
(***************************************************************************)
None == "None"
KeyError == "KeyError"
IndexError == "IndexError"

BoundedSeq(S, n) == UNION {[1..k -> S] : k \in 0..n}

Min(a, b) == IF a < b THEN a ELSE b

Max(a, b) == IF a > b THEN a ELSE b

Zeros(n) == [i \in 1..n |-> 0]

\* Python's s[-n:] for n > 0: the last n elements, all of s when it is shorter.
LastN(s, n) == SubSeq(s, Max(1, Len(s) - n + 1), Len(s))

\* Python's s[:n] for n >= 0.
FirstN(s, n) == SubSeq(s, 1, Min(n, Len(s)))

RECURSIVE Concat(_)
Concat(ss) == IF ss = <<>> THEN <<>> ELSE Head(ss) \o Concat(Tail(ss))

(***************************************************************************)
(* str.strip, str.split and str.lower on the modelled alphabet.            *)
(***************************************************************************)
IsSpace(c) == c \in {" ", "\t", "\n"}

UpperToLower == [c \in {"A", "B", "D", "N", "V", "I", "O"} |->
                   CASE c = "A" -> "a" [] c = "B" -> "b" [] c = "D" -> "d"
                     [] c = "N" -> "n" [] c = "V" -> "v" [] c = "I" -> "i"
                     [] c = "O" -> "o"]

\* w.lower()
lower(w) == [i \in 1..Len(w) |->
               IF w[i] \in DOMAIN UpperToLower THEN UpperToLower[w[i]] ELSE w[i]]

RECURSIVE LStrip(_)
LStrip(s) == IF s # <<>> /\ IsSpace(Head(s)) THEN LStrip(Tail(s)) ELSE s

RECURSIVE RStrip(_)
RStrip(s) == IF s # <<>> /\ IsSpace(s[Len(s)])
             THEN RStrip(SubSeq(s, 1, Len(s) - 1)) ELSE s

\* line.strip()
strip(s) == RStrip(LStrip(s))

\* s.split(): the maximal runs of non-whitespace characters, in order.
RECURSIVE SplitFrom(_, _, _)
SplitFrom(s, cur, acc) ==
    IF s = <<>>
    THEN IF cur = <<>> THEN acc ELSE Append(acc, cur)
    ELSE IF IsSpace(Head(s))
         THEN SplitFrom(Tail(s), <<>>, IF cur = <<>> THEN acc ELSE Append(acc, cur))
         ELSE SplitFrom(Tail(s), Append(cur, Head(s)), acc)

split(s) == SplitFrom(s, <<>>, <<>>)

(***************************************************************************)
(* parse_entries (lines 104-116).                                          *)
(***************************************************************************)
\* [e.strip() for e in line.strip().split()]
Fields(line) == [i \in 1..Len(split(strip(line))) |-> strip(split(strip(line))[i])]

RECURSIVE MinLen(_)
MinLen(rows) == IF Len(rows) = 1 THEN Len(rows[1])
                ELSE Min(Len(Head(rows)), MinLen(Tail(rows)))

\* A transposition that takes its width from the first row alone: a column
\* holds the entries of the rows that have it.
ZipStarFirstRow(rows) ==
    IF rows = <<>> THEN <<>>
    ELSE [c \in 1..Len(rows[1]) |->
            LET has == SelectSeq(rows, LAMBDA r : Len(r) >= c)
            IN  [n \in 1..Len(has) |-> has[n][c]]]

\* list(zip(*rows)): one tuple per column, as many columns as the shortest
\* row has entries; no columns at all for no rows.
ZipStar(rows) ==
    IF rows = <<>> THEN <<>>
    ELSE [c \in 1..MinLen(rows) |-> [n \in 1..Len(rows) |-> rows[n][c]]]

\* The guard of line 111 with an off-by-one.
KeepBlockNonEmpty(b) == Len(b) > 0

\* line 111: len(block) > 1
KeepBlock(b) == Len(b) > 1

\* One iteration of the for loop (lines 110-115) on (texts, block).
ParseStep(st, line) ==
    IF Len(strip(line)) = 0
    THEN [texts |-> IF KeepBlock(st.block)
                    THEN Append(st.texts, ZipStar(st.block)) ELSE st.texts,
          block |-> <<>>]
    ELSE [texts |-> st.texts, block |-> Append(st.block, Fields(line))]

RECURSIVE ParseLoop(_, _)
ParseLoop(st, ls) == IF ls = <<>> THEN st ELSE ParseLoop(ParseStep(st, Head(ls)), Tail(ls))

\* parse_entries(filepath) on the lines of the file.
parse_entries(ls) == ParseLoop([texts |-> <<>>, block |-> <<>>], ls).texts

\* The lines a file given to parse_entries alone is made of, each with its
\* line end: empty, whitespace only, one field, three fields with whitespace
\* around and between them.
ParseLineSet == { <<"\n">>, <<" ", "\n">>, <<"x", "\n">>,
                  <<" ", "y", "\t", "x", " ", " ", "z", "\n">> }

(***************************************************************************)
(* _sentences_to_ints (lines 236-253).                                     *)
(***************************************************************************)
\* The word as the counting pass keys it (lines 246-247).
CountKey(w, lc) == IF lc THEN lower(w) ELSE w

\* w_dict.update({w: w_dict.get(w, 0) + 1}) (line 248): an existing key keeps
\* its place, a new key goes last.
CountWord(d, k) ==
    IF \E i \in 1..Len(d) : d[i][1] = k
    THEN [i \in 1..Len(d) |-> IF d[i][1] = k THEN <<k, d[i][2] + 1>> ELSE d[i]]
    ELSE Append(d, <<k, 1>>)

RECURSIVE CountSentence(_, _, _)
CountSentence(d, sen, lc) ==
    IF sen = <<>> THEN d
    ELSE CountSentence(CountWord(d, CountKey(Head(sen), lc)), Tail(sen), lc)

\* The counting pass (lines 243-248).
RECURSIVE CountPass(_, _, _)
CountPass(d, ts, lc) ==
    IF ts = <<>> THEN d ELSE CountPass(CountSentence(d, Head(ts), lc), Tail(ts), lc)

RemoveAt(s, i) == SubSeq(s, 1, i - 1) \o SubSeq(s, i + 1, Len(s))

\* A sort by ascending count (reverse=True forgotten).
RECURSIVE SortedAscending(_)
SortedAscending(items) ==
    IF items = <<>> THEN <<>>
    ELSE LET m == CHOOSE i \in 1..Len(items) :
                    /\ \A j \in 1..Len(items) : items[j][2] >= items[i][2]
                    /\ \A j \in 1..(i - 1) : items[j][2] > items[i][2]
         IN  <<items[m]>> \o SortedAscending(RemoveAt(items, m))

\* sorted(w_dict.items(), key=lambda x: x[1], reverse=True) (line 250): by
\* descending count, items of equal count in their original order (the sort
\* is stable, and reverse=True keeps that order).
RECURSIVE SortedByCount(_)
SortedByCount(items) ==
    IF items = <<>> THEN <<>>
    ELSE LET m == CHOOSE i \in 1..Len(items) :
                    /\ \A j \in 1..Len(items) : items[j][2] <= items[i][2]
                    /\ \A j \in 1..(i - 1) : items[j][2] < items[i][2]
         IN  <<items[m]>> \o SortedByCount(RemoveAt(items, m))

\* int_to_word and vocab (lines 249-251): enumerate() numbers from 0.
MakeVocab(d) ==
    LET sorted == SortedByCount(d)
    IN  [k \in {sorted[i][1] : i \in 1..Len(sorted)} |->
            (CHOOSE i \in 1..Len(sorted) : sorted[i][1] = k) - 1]

\* dict[key]: the value, or a KeyError.
Lookup(d, k) == IF k \in DOMAIN d THEN d[k] ELSE KeyError

\* A mapping pass that never lower-cases the key.
MapKeyRaw(w, lc) == w

\* The key of the mapping pass (line 252).
MapKey(w, lc) == IF lc THEN lower(w) ELSE w

\* The mapping pass (lines 252-253).
MapPass(ts, vc, lc) ==
    [s \in 1..Len(ts) |-> [j \in 1..Len(ts[s]) |-> Lookup(vc, MapKey(ts[s][j], lc))]]

\* Some lookup of the mapping pass raises.
Raised(ts, vc, lc) ==
    \E s \in 1..Len(ts) : \E j \in 1..Len(ts[s]) : MapKey(ts[s][j], lc) \notin DOMAIN vc

\* _sentences_to_ints(texts, lowercase): (ints, vocab), or a KeyError.
_sentences_to_ints(ts, lc) ==
    LET vc == MakeVocab(CountPass(<<>>, ts, lc))
        ints == MapPass(ts, vc, lc)
    IN  [ok |-> ~Raised(ts, vc, lc), ints |-> ints, vocab |-> vc]

\* {i: s for s, i in vocab.items()} (line 169)
InverseVocab(vc) ==
    [i \in {vc[k] : k \in DOMAIN vc} |-> CHOOSE k \in DOMAIN vc : vc[k] = i]

\* The words given to _sentences_to_ints alone.
VocabWordSet == { <<"a">>, <<"A">>, <<"b">> }

(***************************************************************************)
(* The padding helpers the file imports.                                   *)
(***************************************************************************)
\* pad_sentences(sentences, sentence_length=n): one row of n entries per
\* sequence; a longer sequence is cut from the front (its last n entries are
\* kept), a shorter one is preceded by zeros.
pad_sentences(ss, n) ==
    [i \in 1..Len(ss) |-> Zeros(n - Len(LastN(ss[i], n))) \o LastN(ss[i], n)]

\* get_paddedXY_sequence(X, y, sentence_length=n, shuffle=False): both lists
\* padded to n.
get_paddedXY_sequence(xs, ys, n) == <<pad_sentences(xs, n), pad_sentences(ys, n)>>

(***************************************************************************)
(* create_char_features (lines 118-145).                                   *)
(***************************************************************************)
\* Lines 126-132 for one character: st is (char_dict, char_id, char_vector).
CharStep(st, c) ==
    IF c \in DOMAIN st.char_dict
    THEN [st EXCEPT !.char_vector = Append(@, st.char_dict[c])]
    ELSE [char_dict |-> [k \in DOMAIN st.char_dict \cup {c} |->
                            IF k = c THEN st.char_id ELSE st.char_dict[k]],
          char_id |-> st.char_id + 1,
          char_vector |-> Append(st.char_vector, st.char_id)]

RECURSIVE CharLoop(_, _)
CharLoop(st, w) == IF w = <<>> THEN st ELSE CharLoop(CharStep(st, Head(w)), Tail(w))

\* Lines 124-134 for the words of one sentence: st is (char_dict, char_id,
\* char_sents).
RECURSIVE WordLoop(_, _)
WordLoop(st, s) ==
    IF s = <<>> THEN st
    ELSE LET r == CharLoop([char_dict |-> st.char_dict, char_id |-> st.char_id,
                            char_vector |-> <<>>], Head(s))
         IN  WordLoop([char_dict |-> r.char_dict, char_id |-> r.char_id,
                       char_sents |-> Append(st.char_sents,
                                             <<1>> \o r.char_vector \o <<2>>)],
                      Tail(s))

\* Lines 136-141: cut to the first sentence_length rows, or stack zero rows
\* on top.
FitSentence(rows, sl, wl) ==
    IF sl - Len(rows) < 0
    THEN FirstN(rows, sl)
    ELSE [i \in 1..(sl - Len(rows)) |-> Zeros(wl)] \o rows

\* One iteration of the outer loop (lines 122-142): st is (char_dict,
\* char_id, new_sentences).
SentenceStep(st, s, sl, wl) ==
    LET r == WordLoop([char_dict |-> st.char_dict, char_id |-> st.char_id,
                       char_sents |-> <<>>], s)
    IN  [char_dict |-> r.char_dict, char_id |-> r.char_id,
         new_sentences |-> Append(st.new_sentences,
                                  FitSentence(pad_sentences(r.char_sents, wl), sl, wl))]

RECURSIVE SentenceLoop(_, _, _, _)
SentenceLoop(st, ss, sl, wl) ==
    IF ss = <<>> THEN st
    ELSE SentenceLoop(SentenceStep(st, Head(ss), sl, wl), Tail(ss), sl, wl)

\* np.asarray(new_sentences) (line 143) of a list of equal (sl, wl) arrays,
\* sl >= 1: the shape is read off the list, and an empty list gives the
\* one-dimensional empty array.
NpAsarray(ns, sl, wl) ==
    IF ns = <<>> THEN [shape |-> <<0>>, data |-> <<>>]
    ELSE [shape |-> <<Len(ns), Len(ns[1]), Len(ns[1][1])>>, data |-> ns]

\* The initial locals (lines 119-121).
CharInit == [char_dict |-> [c \in {} |-> 0], char_id |-> 3, new_sentences |-> <<>>]

\* create_char_features(sentences, sentence_length, word_length): the array
\* and the character vocabulary stored in self.vocabs.
create_char_features(ss, sl, wl) ==
    LET r == SentenceLoop(CharInit, ss, sl, wl)
    IN  [array |-> NpAsarray(r.new_sentences, sl, wl), char_dict |-> r.char_dict]

\* char_sentences.reshape(-1, n) (lines 219-220).
Reshape2(a, n) ==
    [shape |-> <<Len(a.data), n>>,
     data |-> [i \in 1..Len(a.data) |-> Concat(a.data[i])]]

\* The words given to create_char_features alone.
CharWordSet == { <<>>, <<"a">>, <<"b", "a">>, <<"a", "c", "a">> }

(***************************************************************************)
(* The collaborators of gen_iterators.                                     *)
(***************************************************************************)
\* load_word_embeddings(path): the vectors by lower-case word, and their size.
w2v_dict == [k \in {<<"a">>, <<"b">>} |->
               IF k = <<"a">> THEN [i \in 1..EmbSize |-> 1] ELSE [i \in 1..EmbSize |-> 2]]

\* TaggedTextSequence(steps, x=, y=, num_classes=, vec_input=)
TaggedTextSequence(steps, x, ys, num_classes, vec_input) ==
    [type |-> "TaggedTextSequence", steps |-> steps, x |-> x, y |-> ys,
     num_classes |-> num_classes, vec_input |-> vec_input]

\* MultiSequenceDataIterator(iters)
MultiSequenceDataIterator(iters) ==
    [type |-> "MultiSequenceDataIterator", iters |-> iters]

(***************************************************************************)
(* gen_iterators (lines 147-234).                                          *)
(***************************************************************************)
\* d.update({k: v})
DictUpdate(d, k, v) == [x \in DOMAIN d \cup {k} |-> IF x = k THEN v ELSE d[x]]

EmptyDict == [x \in {} |-> None]

\* a[:n] and a[n:] on the first axis.
Upto(a, n) == SubSeq(a, 1, Min(n, Len(a)))

From(a, n) == SubSeq(a, n + 1, Len(a))

\* list(zip(*data_set))[k - 1]: column k of every sentence, or an IndexError
\* when the data set is empty or a sentence has fewer columns.
HasColumn(data_set, k) == Len(ZipStar(data_set)) >= k

Column(data_set, k) ==
    IF HasColumn(data_set, k) THEN ZipStar(data_set)[k] ELSE IndexError

\* The two partitions joined test first.
JoinTestFirst(train, test, k) ==
    IF ~HasColumn(train, k) \/ ~HasColumn(test, k)
    THEN IndexError ELSE Column(test, k) \o Column(train, k)

\* list(zip(*train_set))[k - 1] + list(zip(*test_set))[k - 1]
\* (lines 151, 155, 206)
Join(train, test, k) ==
    IF ~HasColumn(train, k) \/ ~HasColumn(test, k)
    THEN IndexError ELSE Column(train, k) \o Column(test, k)

\* The vector of one entry of the padded token array (lines 174-182).
W2vEntry(w, x_vocab_is) ==
    IF 0 <= w /\ w <= 2 THEN Zeros(EmbSize)
    ELSE IF (w - 3) \notin DOMAIN x_vocab_is THEN KeyError
    ELSE LET word == x_vocab_is[w - 3]
         IN  IF lower(word) \in DOMAIN w2v_dict THEN w2v_dict[lower(word)]
             ELSE Zeros(EmbSize)

\* Lines 169-184.
W2vArray(xs, x_vocab) ==
    [r \in 1..Len(xs) |-> [p \in 1..Len(xs[r]) |-> W2vEntry(xs[r][p], InverseVocab(x_vocab))]]

\* Some lookup of line 177 raises.
W2vRaised(xs, x_vocab) ==
    \E r \in 1..Len(xs) : \E p \in 1..Len(xs[r]) :
        xs[r][p] > 2 /\ (xs[r][p] - 3) \notin DOMAIN InverseVocab(x_vocab)

\* The final choice with the threshold one too high.
WrapAboveTwo(iters) ==
    IF Len(iters) > 2 THEN MultiSequenceDataIterator(iters) ELSE iters[1]

\* Lines 228-233.
Wrap(iters) ==
    IF Len(iters) > 1 THEN MultiSequenceDataIterator(iters) ELSE iters[1]

\* The corpus lines of the model: token, POS tag, chunk tag.
GenLineSet == { <<"a", " ", "D", " ", "B", "\n">>, <<"A", " ", "N", " ", "I", "\n">>,
                <<"b", " ", "N", " ", "B", "\n">>,
                <<"a", "b", " ", "V", " ", "O", "\n">> }

\* A file of well-formed sentences of 2..n lines, each followed by one
\* blank line.
GenSentences(n) == UNION {[1..k -> GenLineSet] : k \in 2..n}

GenFiles(n) ==
    {Concat([i \in 1..Len(ss) |-> Append(ss[i], <<"\n">>)]) :
        ss \in BoundedSeq(GenSentences(n), MaxFileSents)}

(***************************************************************************)
(* The state before a call, per group of variables.                        *)
(***************************************************************************)
ParseIdle == lines = <<>> /\ idx = 0 /\ block = <<>> /\ texts = <<>>

VocabIdle ==
    /\ v_texts = <<>> /\ lowercase = FALSE /\ w_dict = <<>>
    /\ vocab = EmptyDict /\ v_ints = <<>>

CharIdle ==
    /\ c_sentences = <<>> /\ c_sentence_length = 0 /\ c_word_length = 0
    /\ c_done = 0 /\ char_dict = CharInit.char_dict /\ char_id = CharInit.char_id
    /\ new_sentences = CharInit.new_sentences /\ char_sentences = None

\* Lines 63-70 and the locals not yet assigned.
GenIdle ==
    /\ train_set = <<>> /\ test_set = <<>> /\ sents = <<>>
    /\ X = <<>> /\ y = <<>> /\ X_w2v = <<>> /\ X_pos = <<>> /\ g_chars = <<>>
    /\ vocabs = EmptyDict /\ y_vocab = EmptyDict /\ y_size = 0
    /\ train_iters = <<>> /\ test_iters = <<>> /\ data_dict = EmptyDict

GenUnused ==
    /\ train_file = <<>> /\ test_file = <<>>
    /\ sentence_length = 0 /\ chars_len = 0
    /\ use_pos = FALSE /\ use_chars = FALSE /\ use_w2v = FALSE
    /\ GenIdle

(***************************************************************************)
(* parse_entries, one line at a time.                                      *)
(***************************************************************************)
InitParse ==
    /\ pc = "parse"
    /\ lines \in BoundedSeq(ParseLineSet, MaxLines)
    /\ idx = 0 /\ block = <<>> /\ texts = <<>>
    /\ VocabIdle /\ CharIdle /\ GenUnused

\* Lines 110-113: a blank line closes the block.
ReadBlankLine ==
    /\ pc = "parse" /\ idx < Len(lines)
    /\ Len(strip(lines[idx + 1])) = 0
    /\ LET st == ParseStep([texts |-> texts, block |-> block], lines[idx + 1])
       IN  texts' = st.texts /\ block' = st.block
    /\ idx' = idx + 1
    /\ UNCHANGED <<pc, lines, vocabVars, charVars, genVars>>

\* Lines 114-115: any other line joins the block.
ReadTokenLine ==
    /\ pc = "parse" /\ idx < Len(lines)
    /\ Len(strip(lines[idx + 1])) # 0
    /\ LET st == ParseStep([texts |-> texts, block |-> block], lines[idx + 1])
       IN  texts' = st.texts /\ block' = st.block
    /\ idx' = idx + 1
    /\ UNCHANGED <<pc, lines, vocabVars, charVars, genVars>>

\* Line 116: the end of the file.
ParseReturn ==
    /\ pc = "parse" /\ idx = Len(lines)
    /\ pc' = "parse_done"
    /\ UNCHANGED <<parseVars, vocabVars, charVars, genVars>>

NextParse == ReadBlankLine \/ ReadTokenLine \/ ParseReturn

SpecParse == InitParse /\ [][NextParse]_vars

(***************************************************************************)
(* _sentences_to_ints, one pass at a time.                                 *)
(***************************************************************************)
InitVocab ==
    /\ pc = "vocab_count"
    /\ v_texts \in BoundedSeq(BoundedSeq(VocabWordSet, MaxTextLen), MaxTexts)
    /\ lowercase \in BOOLEAN
    /\ w_dict = <<>> /\ vocab = EmptyDict /\ v_ints = <<>>
    /\ ParseIdle /\ CharIdle /\ GenUnused

\* Lines 243-248.
CountSentences ==
    /\ pc = "vocab_count"
    /\ w_dict' = CountPass(<<>>, v_texts, lowercase)
    /\ pc' = "vocab_sort"
    /\ UNCHANGED <<v_texts, lowercase, vocab, v_ints, parseVars, charVars, genVars>>

\* Lines 249-251.
BuildVocab ==
    /\ pc = "vocab_sort"
    /\ vocab' = MakeVocab(w_dict)
    /\ pc' = "vocab_map"
    /\ UNCHANGED <<v_texts, lowercase, w_dict, v_ints, parseVars, charVars, genVars>>

\* Lines 252-253: the ids are returned, or a lookup raises.
MapSentences ==
    /\ pc = "vocab_map"
    /\ v_ints' = MapPass(v_texts, vocab, lowercase)
    /\ pc' = IF Raised(v_texts, vocab, lowercase) THEN "vocab_error" ELSE "vocab_done"
    /\ UNCHANGED <<v_texts, lowercase, w_dict, vocab, parseVars, charVars, genVars>>

NextVocab == CountSentences \/ BuildVocab \/ MapSentences

SpecVocab == InitVocab /\ [][NextVocab]_vars

(***************************************************************************)
(* create_char_features, one sentence at a time.                           *)
(***************************************************************************)
InitChars ==
    /\ pc = "chars"
    /\ c_sentences \in BoundedSeq(BoundedSeq(CharWordSet, MaxCharWords), MaxCharSents)
    /\ c_sentence_length \in 1..MaxSentenceLength
    /\ c_word_length \in 2..MaxWordLength
    /\ c_done = 0
    /\ char_dict = CharInit.char_dict /\ char_id = CharInit.char_id
    /\ new_sentences = CharInit.new_sentences /\ char_sentences = None
    /\ ParseIdle /\ VocabIdle /\ GenUnused

\* Lines 122-142 for the next sentence.
CharSentence ==
    /\ pc = "chars" /\ c_done < Len(c_sentences)
    /\ LET st == SentenceStep([char_dict |-> char_dict, char_id |-> char_id,
                               new_sentences |-> new_sentences],
                              c_sentences[c_done + 1], c_sentence_length, c_word_length)
       IN  /\ char_dict' = st.char_dict
           /\ char_id' = st.char_id
           /\ new_sentences' = st.new_sentences
    /\ c_done' = c_done + 1
    /\ UNCHANGED <<pc, c_sentences, c_sentence_length, c_word_length, char_sentences,
                   parseVars, vocabVars, genVars>>

\* Lines 143-145.
CharReturn ==
    /\ pc = "chars" /\ c_done = Len(c_sentences)
    /\ char_sentences' = NpAsarray(new_sentences, c_sentence_length, c_word_length)
    /\ vocabs' = DictUpdate(vocabs, "char_rnn", char_dict)
    /\ pc' = "chars_done"
    /\ UNCHANGED <<c_sentences, c_sentence_length, c_word_length, c_done, char_dict,
                   char_id, new_sentences, parseVars, vocabVars,
                   train_file, test_file, sentence_length, chars_len,
                   use_pos, use_chars, use_w2v, train_set, test_set,
                   sents, X, y, X_w2v, X_pos, g_chars, y_vocab, y_size,
                   train_iters, test_iters, data_dict>>

NextChars == CharSentence \/ CharReturn

SpecChars == InitChars /\ [][NextChars]_vars

(***************************************************************************)
(* gen_iterators, one block of the method at a time.                       *)
(***************************************************************************)
Init ==
    /\ pc = "gen_start"
    /\ train_file \in GenFiles(MaxSentLen)
    /\ test_file \in GenFiles(MaxTestLen)
    /\ sentence_length \in (MaxSentLen - 1)..MaxSentLen
    /\ chars_len = CharsLen
    /\ use_pos \in BOOLEAN /\ use_chars \in BOOLEAN /\ use_w2v \in BOOLEAN
    /\ GenIdle
    /\ ParseIdle /\ VocabIdle /\ CharIdle

genConfig == <<train_file, test_file, sentence_length, chars_len,
               use_pos, use_chars, use_w2v>>

\* Line 148: load_data() parses both files (lines 96-102).
LoadData ==
    /\ pc = "gen_start"
    /\ train_set' = parse_entries(train_file)
    /\ test_set' = parse_entries(test_file)
    /\ pc' = "gen_loaded"
    /\ UNCHANGED <<genConfig, sents, X, y, X_w2v, X_pos, g_chars, vocabs, y_vocab,
                   y_size, train_iters, test_iters, data_dict,
                   parseVars, vocabVars, charVars>>

\* Lines 149-164: the token and label arrays; an IndexError when a partition
\* has no sentence or a sentence lacks a column.
BuildXY ==
    /\ pc = "gen_loaded"
    /\ IF ~HasColumn(train_set, 1) \/ ~HasColumn(test_set, 1)
          \/ ~HasColumn(train_set, 3) \/ ~HasColumn(test_set, 3)
       THEN /\ pc' = "gen_error"
            /\ UNCHANGED <<sents, X, y, vocabs, y_vocab, y_size>>
       ELSE LET tx == _sentences_to_ints(Join(train_set, test_set, 1), FALSE)
                ty == _sentences_to_ints(Join(train_set, test_set, 3), FALSE)
                padded == get_paddedXY_sequence(tx.ints, ty.ints, sentence_length)
            IN  /\ sents' = Join(train_set, test_set, 1)
                /\ vocabs' = DictUpdate(vocabs, "token", tx.vocab)
                /\ y_vocab' = ty.vocab
                /\ X' = padded[1]
                /\ y' = padded[2]
                /\ y_size' = Cardinality(DOMAIN ty.vocab) + 1
                /\ pc' = IF tx.ok /\ ty.ok THEN "gen_xy" ELSE "gen_error"
    /\ UNCHANGED <<genConfig, train_set, test_set, X_w2v, X_pos, g_chars,
                   train_iters, test_iters, data_dict, parseVars, vocabVars, charVars>>

\* Lines 166-194: the embedding stream.
EmbeddingStream ==
    /\ pc = "gen_xy" /\ use_w2v
    /\ X_w2v' = W2vArray(X, vocabs["token"])
    /\ IF W2vRaised(X, vocabs["token"])
       THEN pc' = "gen_error" /\ UNCHANGED <<train_iters, test_iters>>
       ELSE /\ train_iters' = Append(train_iters,
                TaggedTextSequence(sentence_length, Upto(X_w2v', Len(train_set)),
                                   Upto(y, Len(train_set)), y_size, TRUE))
            /\ test_iters' = Append(test_iters,
                TaggedTextSequence(sentence_length, From(X_w2v', Len(train_set)),
                                   From(y, Len(train_set)), y_size, TRUE))
            /\ pc' = "gen_tokens"
    /\ UNCHANGED <<genConfig, train_set, test_set, sents, X, y, X_pos, g_chars,
                   vocabs, y_vocab, y_size, data_dict, parseVars, vocabVars, charVars>>

\* Lines 195-203: the token stream.
TokenStream ==
    /\ pc = "gen_xy" /\ ~use_w2v
    /\ train_iters' = Append(train_iters,
            TaggedTextSequence(sentence_length, Upto(X, Len(train_set)),
                               Upto(y, Len(train_set)), y_size, FALSE))
    /\ test_iters' = Append(test_iters,
            TaggedTextSequence(sentence_length, From(X, Len(train_set)),
                               From(y, Len(train_set)), y_size, FALSE))
    /\ pc' = "gen_tokens"
    /\ UNCHANGED <<genConfig, train_set, test_set, sents, X, y, X_w2v, X_pos, g_chars,
                   vocabs, y_vocab, y_size, data_dict, parseVars, vocabVars, charVars>>

\* Lines 205-214: the POS stream.
PosStream ==
    /\ pc = "gen_tokens" /\ use_pos
    /\ LET tp == _sentences_to_ints(Join(train_set, test_set, 2), TRUE)
           padded == get_paddedXY_sequence(tp.ints, y, sentence_length)
       IN  IF ~HasColumn(train_set, 2) \/ ~HasColumn(test_set, 2) \/ ~tp.ok
           THEN pc' = "gen_error" /\ UNCHANGED <<X_pos, vocabs, train_iters, test_iters>>
           ELSE /\ vocabs' = DictUpdate(vocabs, "pos", tp.vocab)
                /\ X_pos' = padded[1]
                /\ train_iters' = Append(train_iters,
                        TaggedTextSequence(sentence_length, Upto(X_pos', Len(train_set)),
                                           None, None, FALSE))
                /\ test_iters' = Append(test_iters,
                        TaggedTextSequence(sentence_length, From(X_pos', Len(train_set)),
                                           None, None, FALSE))
                /\ pc' = "gen_pos"
    /\ UNCHANGED <<genConfig, train_set, test_set, sents, X, y, X_w2v, g_chars,
                   y_vocab, y_size, data_dict, parseVars, vocabVars, charVars>>

\* Line 205, use_pos unset.
SkipPos ==
    /\ pc = "gen_tokens" /\ ~use_pos
    /\ pc' = "gen_pos"
    /\ UNCHANGED <<genVars, parseVars, vocabVars, charVars>>

\* Lines 216-226: the character stream.
CharStream ==
    /\ pc = "gen_pos" /\ use_chars
    /\ LET r == create_char_features(sents, sentence_length, chars_len)
       IN  /\ g_chars' = Reshape2(r.array, sentence_length * chars_len)
           /\ vocabs' = DictUpdate(vocabs, "char_rnn", r.char_dict)
    /\ train_iters' = Append(train_iters,
            TaggedTextSequence(chars_len * sentence_length,
                               Upto(g_chars'.data, Len(train_set)), None, None, FALSE))
    /\ test_iters' = Append(test_iters,
            TaggedTextSequence(chars_len * sentence_length,
                               From(g_chars'.data, Len(train_set)), None, None, FALSE))
    /\ pc' = "gen_chars"
    /\ UNCHANGED <<genConfig, train_set, test_set, sents, X, y, X_w2v, X_pos,
                   y_vocab, y_size, data_dict, parseVars, vocabVars, charVars>>

\* Line 216, use_chars unset.
SkipChars ==
    /\ pc = "gen_pos" /\ ~use_chars
    /\ pc' = "gen_chars"
    /\ UNCHANGED <<genVars, parseVars, vocabVars, charVars>>

\* Lines 228-234.
Finish ==
    /\ pc = "gen_chars"
    /\ data_dict' = DictUpdate(DictUpdate(data_dict, "train", Wrap(train_iters)),
                               "test", Wrap(test_iters))
    /\ pc' = "gen_done"
    /\ UNCHANGED <<genConfig, train_set, test_set, sents, X, y, X_w2v, X_pos, g_chars,
                   vocabs, y_vocab, y_size, train_iters, test_iters,
                   parseVars, vocabVars, charVars>>

Next ==
    \/ LoadData \/ BuildXY \/ EmbeddingStream \/ TokenStream
    \/ PosStream \/ SkipPos \/ CharStream \/ SkipChars \/ Finish

Spec == Init /\ [][Next]_vars

(***************************************************************************)
(* Properties of parse_entries, checked under SpecParse.                   *)
(***************************************************************************)
\* A line with no character other than whitespace.
Blank(line) == \A i \in 1..Len(line) : IsSpace(line[i])

\* The number of consecutive non-blank lines that end right before line i.
RunLenBefore(i) ==
    CHOOSE n \in 0..(i - 1) :
        /\ \A k \in 1..n : ~Blank(lines[i - k])
        /\ (n = i - 1 \/ Blank(lines[i - n - 1]))

\* The blank lines among the first m that follow a run of two or more lines.
Closers(m) == {i \in 1..m : Blank(lines[i]) /\ RunLenBefore(i) >= 2}

\* The k-th of them, in file order.
Closer(m, k) == CHOOSE i \in Closers(m) : Cardinality({j \in Closers(m) : j <= i}) = k

\* C4: parse_entries returns, in file order, exactly one sentence for each
\* maximal run of two or more non-blank lines that a blank line follows, made
\* of the fields of the lines of that run; a run of one line, and a last run
\* not followed by a blank line, yield nothing; the block is empty after
\* every blank line.
C4_OneSentencePerClosedRun ==
    pc \in {"parse", "parse_done"} =>
        /\ Len(texts) = Cardinality(Closers(idx))
        /\ \A k \in 1..Len(texts) :
             LET i == Closer(idx, k)
                 n == RunLenBefore(i)
             IN  /\ Len(texts[k]) >= 1
                 /\ \A c \in 1..Len(texts[k]) : \A r \in 1..Len(texts[k][c]) :
                        /\ r <= n
                        /\ texts[k][c][r] = Fields(lines[i - n + r - 1])[c]
        /\ (idx > 0 /\ Blank(lines[idx]) => block = <<>>)
        /\ (pc = "parse_done" => idx = Len(lines))

\* A file was read to its end that holds a closed run of two lines, a run of
\* one line that was dropped, and a last run with no blank line after it.
C4_Witness ==
    /\ pc = "parse_done" /\ Len(texts) = 1 /\ Len(block) = 1
    /\ \E i \in 1..Len(lines) : Blank(lines[i]) /\ RunLenBefore(i) = 1

\* C5: every sentence parse_entries returns has columns of one length, the
\* number of lines of its block, also when the lines of the block have
\* differing numbers of fields; such lines raise nothing, the parser reads on
\* to the end of the file.
C5_ColumnsOfBlockLength ==
    /\ pc \in {"parse", "parse_done"}
    /\ (pc = "parse" => idx <= Len(lines))
    /\ \A k \in 1..Len(texts) :
         /\ Closers(idx) # {}
         /\ \A c \in 1..Len(texts[k]) :
                Len(texts[k][c]) = RunLenBefore(Closer(idx, k))

\* A returned sentence whose block held lines of differing numbers of fields.
C5_Witness ==
    /\ pc = "parse_done" /\ Len(texts) >= 1
    /\ LET i == Closer(idx, 1)
       IN  \E a, b \in (i - RunLenBefore(i))..(i - 1) :
               Len(Fields(lines[a])) # Len(Fields(lines[b]))

(***************************************************************************)
(* Properties of _sentences_to_ints, checked under SpecVocab.              *)
(***************************************************************************)
\* The tokens of all sentences in reading order, normalized per the flag.
NormTokens ==
    LET flat == Concat(v_texts)
    IN  [i \in 1..Len(flat) |-> IF lowercase THEN lower(flat[i]) ELSE flat[i]]

\* The distinct strings among the tokens toks.
KeysOf(toks) == {toks[i] : i \in 1..Len(toks)}

\* How often each string occurs in toks.
OccurrencesIn(toks) ==
    [k \in KeysOf(toks) |-> Cardinality({i \in 1..Len(toks) : toks[i] = k})]

\* Where each string occurs first in toks.
FirstSeenIn(toks) ==
    [k \in KeysOf(toks) |->
        CHOOSE i \in 1..Len(toks) : toks[i] = k /\ \A j \in 1..(i - 1) : toks[j] # k]

\* C1: the vocabulary gives the ids 0..N-1 one-to-one to the N distinct
\* normalized strings, in order of descending occurrence count, strings of
\* equal count in order of first encounter.
C1_VocabRankedByCount ==
    pc \in {"vocab_map", "vocab_done", "vocab_error"} =>
        LET toks == NormTokens
            occ == OccurrencesIn(toks)
            first == FirstSeenIn(toks)
        IN  /\ DOMAIN vocab = KeysOf(toks)
            /\ {vocab[k] : k \in DOMAIN vocab} = 0..(Cardinality(KeysOf(toks)) - 1)
            /\ \A u, v \in DOMAIN vocab :
                  (\/ occ[u] > occ[v]
                   \/ (occ[u] = occ[v] /\ first[u] < first[v]))
                  => vocab[u] < vocab[v]

\* A vocabulary built with lower-casing from tokens that it changes, where a
\* string met later occurs more often than one met earlier and has id 0.
C1_Witness ==
    /\ pc = "vocab_done" /\ lowercase
    /\ \E i \in 1..Len(Concat(v_texts)) : lower(Concat(v_texts)[i]) # Concat(v_texts)[i]
    /\ \E u, v \in KeysOf(NormTokens) :
          /\ FirstSeenIn(NormTokens)[u] < FirstSeenIn(NormTokens)[v]
          /\ OccurrencesIn(NormTokens)[v] > OccurrencesIn(NormTokens)[u]
          /\ vocab[v] = 0

\* C9: _sentences_to_ints raises no lookup error and returns one id sequence
\* per sentence, of its length and in its order, whose entries are the
\* vocabulary ids of the normalized tokens; an id taken back to its string and
\* forward again is the same id.
C9_MappingTotalAndFaithful ==
    /\ pc # "vocab_error"
    /\ pc = "vocab_done" =>
        LET back == InverseVocab(vocab)
        IN  /\ Len(v_ints) = Len(v_texts)
            /\ \A s \in 1..Len(v_texts) :
                 /\ Len(v_ints[s]) = Len(v_texts[s])
                 /\ \A j \in 1..Len(v_texts[s]) :
                      LET k == IF lowercase THEN lower(v_texts[s][j]) ELSE v_texts[s][j]
                      IN  /\ k \in DOMAIN vocab
                          /\ v_ints[s][j] = vocab[k]
                          /\ v_ints[s][j] \in DOMAIN back
                          /\ vocab[back[v_ints[s][j]]] = v_ints[s][j]

\* Two sentences were mapped with lower-casing, one of them holding an
\* upper-case token.
C9_Witness ==
    /\ pc = "vocab_done" /\ lowercase /\ Len(v_ints) = 2
    /\ \E s \in 1..Len(v_texts) : \E j \in 1..Len(v_texts[s]) :
          lower(v_texts[s][j]) # v_texts[s][j]

(***************************************************************************)
(* Properties of create_char_features, checked under SpecChars.            *)
(***************************************************************************)
\* The rows of sentence s of the returned array that hold words, as pairs
\* (row, word): the first sentence_length words when the sentence is longer,
\* else all its words in the last rows.
KeptWords(s) ==
    LET n == Len(c_sentences[s])
    IN  IF n > c_sentence_length
        THEN {<<r, r>> : r \in 1..c_sentence_length}
        ELSE {<<c_sentence_length - n + j, j>> : j \in 1..n}

\* C6: for every list of sentences create_char_features returns an array of
\* shape (number of sentences, sentence_length, word_length); a sentence of
\* fewer words has all-zero rows before its word rows, one of more words is
\* cut to sentence_length rows.
C6_ShapeIsSentencesByLengthByWidth ==
    pc = "chars_done" =>
        /\ char_sentences.shape = <<Len(c_sentences), c_sentence_length, c_word_length>>
        /\ Len(char_sentences.data) = Len(c_sentences)
        /\ \A s \in 1..Len(char_sentences.data) :
             /\ Len(char_sentences.data[s]) = c_sentence_length
             /\ \A r \in 1..c_sentence_length :
                  /\ Len(char_sentences.data[s][r]) = c_word_length
                  /\ (r \notin {k[1] : k \in KeptWords(s)}
                        => char_sentences.data[s][r] = Zeros(c_word_length))

\* C7: the row of every word kept in the output is zero padding, the start
\* sentinel 1, the character ids of the word (all >= 3) in order and the end
\* sentinel 2 as last entry, whatever the length of the word.
C7_WordRowsBoundedBySentinels ==
    pc = "chars_done" =>
        \A s \in 1..Len(char_sentences.data) : \A k \in KeptWords(s) :
            LET w == c_sentences[s][k[2]]
                row == char_sentences.data[s][k[1]]
            IN  /\ \A i \in 1..Len(w) : w[i] \in DOMAIN char_dict /\ char_dict[w[i]] >= 3
                /\ \E z \in 0..c_word_length :
                      row = Zeros(z) \o <<1>> \o [i \in 1..Len(w) |-> char_dict[w[i]]] \o <<2>>

(***************************************************************************)
(* Properties of gen_iterators, checked under Spec.                        *)
(***************************************************************************)
\* The sentences of the corpus, train first, as load_data() returned them.
Corpus == train_set \o test_set

\* The positions of gen_iterators after the token and label arrays are built.
AfterXY == {"gen_xy", "gen_tokens", "gen_pos", "gen_chars", "gen_done"}

\* The vocabulary ids of the tokens of sentence r, in order.
TokenIds(r) == [j \in 1..Len(Corpus[r][1]) |-> vocabs["token"][Corpus[r][1][j]]]

Requested == 1 + (IF use_pos THEN 1 ELSE 0) + (IF use_chars THEN 1 ELSE 0)

\* The part of an array that goes to a phase.
PhasePart(a, phase) ==
    IF phase = "train" THEN Upto(a, Len(train_set)) ELSE From(a, Len(train_set))

\* The streams of a phase are, in order: tokens or embeddings, POS, characters.
StreamsInOrder(iters, phase) ==
    /\ Len(iters) = Requested
    /\ iters[1].steps = sentence_length
    /\ iters[1].vec_input = use_w2v
    /\ iters[1].x = PhasePart(IF use_w2v THEN X_w2v ELSE X, phase)
    /\ iters[1].y = PhasePart(y, phase)
    /\ (use_pos => /\ iters[2].steps = sentence_length
                   /\ iters[2].x = PhasePart(X_pos, phase))
    /\ (use_chars => /\ iters[Requested].steps = chars_len * sentence_length
                     /\ iters[Requested].x = PhasePart(g_chars.data, phase))

\* C8: for every combination of use_w2v, use_pos and use_chars, gen_iterators
\* returns for 'train' and for 'test' a multi-stream iterator when more than
\* one stream is requested and the single stream otherwise; the streams are in
\* the order token-or-embedding, POS, character, as many for test as for
\* train; it fails only for a partition without sentences.
C8_MultiIffSeveralStreams ==
    /\ (pc = "gen_error" => train_set = <<>> \/ test_set = <<>>)
    /\ pc = "gen_done" =>
        /\ DOMAIN data_dict = {"train", "test"}
        /\ Len(train_iters) = Len(test_iters)
        /\ StreamsInOrder(train_iters, "train")
        /\ StreamsInOrder(test_iters, "test")
        /\ \A phase \in {"train", "test"} :
             LET iters == IF phase = "train" THEN train_iters ELSE test_iters
             IN  IF Requested > 1
                 THEN /\ data_dict[phase].type = "MultiSequenceDataIterator"
                      /\ data_dict[phase].iters = iters
                 ELSE /\ data_dict[phase].type = "TaggedTextSequence"
                      /\ data_dict[phase] = iters[1]

\* gen_iterators returned with exactly two streams requested, the embedding
\* stream and the character stream.
C8_Witness ==
    /\ pc = "gen_done" /\ use_w2v /\ ~use_pos /\ use_chars
    /\ data_dict["train"].type = "MultiSequenceDataIterator"
    /\ Len(data_dict["test"].iters) = 2

\* The entries p of row r of the flattened character array that belong to
\* position p of the sentence.
CharRow(r, p) == SubSeq(g_chars.data[r], (p - 1) * chars_len + 1, p * chars_len)

\* A character row describes the word w: it ends with the end sentinel and its
\* character ids are those of the last characters of w.
DescribesWord(row, w) ==
    LET ids == SelectSeq(row, LAMBDA v : v >= 3)
    IN  /\ row[Len(row)] = 2
        /\ Len(ids) = Min(Len(w), chars_len - 1)
        /\ \A i \in 1..Len(ids) :
              vocabs["char_rnn"][w[Len(w) - Len(ids) + i]] = ids[i]

\* C3: row r of the token, label, POS and character arrays describes sentence
\* r, and position p of the row describes the same word of it in all four
\* streams, a padding position in one being a padding position in all:
\* for each row one offset k places word p + k at position p of every stream.
C3_StreamsAligned ==
    pc = "gen_done" /\ use_chars =>
        \A r \in 1..Len(X) :
            \E k \in (0 - sentence_length)..Len(Corpus[r][1]) :
                \A p \in 1..sentence_length :
                    LET j == p + k
                    IN  IF j \in 1..Len(Corpus[r][1])
                        THEN /\ X[r][p] = TokenIds(r)[j]
                             /\ y[r][p] = y_vocab[Corpus[r][3][j]]
                             /\ (use_pos => X_pos[r][p]
                                               = vocabs["pos"][lower(Corpus[r][2][j])])
                             /\ DescribesWord(CharRow(r, p), Corpus[r][1][j])
                        ELSE /\ X[r][p] = 0
                             /\ y[r][p] = 0
                             /\ (use_pos => X_pos[r][p] = 0)
                             /\ CharRow(r, p) = Zeros(chars_len)

\* The word of sentence r at position p of its padded token row (0 for a
\* padding position), as C2 places it.
WordAt(r, p) ==
    LET L == Len(Corpus[r][1])
    IN  IF L <= sentence_length
        THEN (IF p > sentence_length - L THEN p - (sentence_length - L) ELSE 0)
        ELSE p + (L - sentence_length)

\* The embedding of a token: its lower-case form's vector, or zeros.
EmbeddingOf(w) ==
    IF lower(w) \in DOMAIN w2v_dict THEN w2v_dict[lower(w)] ELSE Zeros(EmbSize)

====
